---- MODULE Spec2Model ----
(***************************************************************************)
(* A model of deep-dark-video-manager: the derive macros of the `macros`   *)
(* crate (src/macros/src/lib.rs), the data-access operations they          *)
(* generate, the relational store those operations run against, and the    *)
(* commands add and check of src/main.rs with the directories they keep.   *)
(*                                                                         *)
(* Text (a Rust String, a token string, an SQL statement) is a sequence of *)
(* one-character strings, so that String::pop, slicing and the store's     *)
(* reading of a statement work on characters as the code does.             *)
(***************************************************************************)
EXTENDS Integers, Sequences, FiniteSets, TLC

----------------------------------------------------------------------------
(* The string literals of src/macros/src/lib.rs.                           *)

\* The statement head without its guard: what create_table would send if it
\* did not ask the store to skip an existing table (C4 tells the two apart).
LIT_CREATE_TABLE_unguarded ==
    <<"C","R","E","A","T","E"," ","T","A","B","L","E"," ">>

\* lib.rs:15: "CREATE TABLE IF NOT EXISTS "
LIT_CREATE_TABLE ==
    <<"C","R","E","A","T","E"," ","T","A","B","L","E"," ","I","F"," ","N","O",
      "T"," ","E","X","I","S","T","S"," ">>
\* lib.rs:23: "String"
LIT_String == <<"S","t","r","i","n","g">>
\* lib.rs:24: " TEXT NOT NULL"
LIT_TEXT_NOT_NULL ==
    <<" ","T","E","X","T"," ","N","O","T"," ","N","U","L","L">>
\* lib.rs:26: " INTEGER NOT NULL"
LIT_INTEGER_NOT_NULL ==
    <<" ","I","N","T","E","G","E","R"," ","N","O","T"," ","N","U","L","L">>
\* lib.rs:30: "primary"
LIT_primary == <<"p","r","i","m","a","r","y">>
\* lib.rs:31: " PRIMARY KEY"
LIT_PRIMARY_KEY == <<" ","P","R","I","M","A","R","Y"," ","K","E","Y">>
\* lib.rs:35, 107, 158: ", "
LIT_SEP == <<","," ">>
\* lib.rs:63: "index"
LIT_index == <<"i","n","d","e","x">>
\* lib.rs:65: "CREATE INDEX IF NOT EXISTS idx_"
LIT_CREATE_INDEX ==
    <<"C","R","E","A","T","E"," ","I","N","D","E","X"," ","I","F"," ","N","O",
      "T"," ","E","X","I","S","T","S"," ","i","d","x","_">>
\* lib.rs:69: " ON "
LIT_ON == <<" ","O","N"," ">>
\* lib.rs:101: "SELECT "
LIT_SELECT == <<"S","E","L","E","C","T"," ">>
\* lib.rs:111: " FROM "
LIT_FROM == <<" ","F","R","O","M"," ">>
\* lib.rs:150: "INSERT INTO "
LIT_INSERT_INTO == <<"I","N","S","E","R","T"," ","I","N","T","O"," ">>
\* lib.rs:162: ") VALUES ("
LIT_VALUES == <<")"," ","V","A","L","U","E","S"," ","(">>
\* lib.rs:164: "?,"
LIT_PLACEHOLDER == <<"?",",">>
\* lib.rs:185: "table_name"
LIT_table_name == <<"t","a","b","l","e","_","n","a","m","e">>

----------------------------------------------------------------------------
(* syn's view of the derive input: a struct is its attribute list and its  *)
(* ordered field list; an attribute is the token string of its path and of *)
(* the tokens after the path; a field is its identifier, the token string  *)
(* of its type, and its attribute list.                                    *)

Attribute(path, tokens) == [path |-> path, tokens |-> tokens]

Field(ident, ty, attrs) == [ident |-> ident, ty |-> ty, attrs |-> attrs]

ItemStruct(attrs, fields) == [attrs |-> attrs, fields |-> fields]

\* String::pop removes the last character; on an empty string it does nothing.
pop(s) == IF Len(s) = 0 THEN s ELSE SubSeq(s, 1, Len(s) - 1)

\* panic!(msg): the macro aborts and the build fails with this message.
Panic(msg) == [tag |-> "panic", msg |-> msg]

\* determine_table_name, the loop from attribute i on.
RECURSIVE determine_table_name_from(_, _)
determine_table_name_from(attrs, i) ==
    IF i > Len(attrs)
    THEN Panic("no attribute 'table_name'")
    ELSE IF attrs[i].path = LIT_table_name
    THEN LET name == attrs[i].tokens
         IN  IF Len(name) = 0
             THEN Panic("attribute 'table_name' has no value")
             ELSE IF Len(name) < 2
             THEN Panic("slice index starts at 1 but ends at 0")
             ELSE LET inner == SubSeq(name, 2, Len(name) - 1)
                  IN  IF Len(inner) = 0
                      THEN Panic("attribute 'table_name' has no value")
                      ELSE [tag |-> "ok", name |-> inner]
    ELSE determine_table_name_from(attrs, i + 1)

\* determine_table_name with the empty-value case falling through to the end of
\* the loop instead of aborting with its own message.
determine_table_name_falls_through(attrs) ==
    LET r == determine_table_name_from(attrs, 1)
    IN  IF r = Panic("attribute 'table_name' has no value")
        THEN Panic("no attribute 'table_name'")
        ELSE r

determine_table_name(attrs) == determine_table_name_from(attrs, 1)

\* push_primary_key that looks at the first attribute of the field only (C12
\* tells it from the loop over all attributes).
push_primary_key_first_only(sql, attrs, i) ==
    IF Len(attrs) > 0 /\ attrs[1].path = LIT_primary
    THEN sql \o LIT_PRIMARY_KEY
    ELSE sql

\* A column definition that never gets PRIMARY KEY (C5 tells it from
\* push_primary_key).
push_no_primary_key(sql, attrs, i) == sql

\* derive_create_table, lines 28-34: the loop over one field's attributes,
\* which pushes " PRIMARY KEY" at the first `primary` and breaks.
RECURSIVE push_primary_key(_, _, _)
push_primary_key(sql, attrs, i) ==
    IF i > Len(attrs)
    THEN sql
    ELSE IF attrs[i].path = LIT_primary
    THEN sql \o LIT_PRIMARY_KEY
    ELSE push_primary_key(sql, attrs, i + 1)

\* push_column with the type test `ty.starts_with("String")` instead of `==`.
push_column_starts_with(sql, field) ==
    LET named == sql \o field.ident
        typed == IF Len(field.ty) >= Len(LIT_String)
                    /\ SubSeq(field.ty, 1, Len(LIT_String)) = LIT_String
                 THEN named \o LIT_TEXT_NOT_NULL
                 ELSE named \o LIT_INTEGER_NOT_NULL
    IN  push_primary_key(typed, field.attrs, 1) \o LIT_SEP

\* derive_create_table, lines 19-35: the body of the loop for one field.
push_column(sql, field) ==
    LET named == sql \o field.ident
        typed == IF field.ty = LIT_String
                 THEN named \o LIT_TEXT_NOT_NULL
                 ELSE named \o LIT_INTEGER_NOT_NULL
    IN  push_primary_key(typed, field.attrs, 1) \o LIT_SEP

\* derive_create_table, lines 18-36: the loop over the fields from i on.
RECURSIVE push_columns(_, _, _)
push_columns(sql, fields, i) ==
    IF i > Len(fields)
    THEN sql
    ELSE push_columns(push_column(sql, fields[i]), fields, i + 1)

\* derive_create_table: the statement text the generated create_table runs.
derive_create_table(input) ==
    LET table_name == determine_table_name(input.attrs)
    IN  IF table_name.tag = "panic"
        THEN table_name
        ELSE LET opened == LIT_CREATE_TABLE \o table_name.name \o <<"(">>
                 listed == push_columns(opened, input.fields, 1)
             IN  [tag |-> "ok",
                  table_name |-> table_name.name,
                  sql |-> pop(pop(listed)) \o <<")">>]

\* push_index without `continue 'field`: one statement per `index` attribute.
RECURSIVE push_index_per_attribute(_, _, _, _)
push_index_per_attribute(sqls, table_name, field, i) ==
    IF i > Len(field.attrs)
    THEN sqls
    ELSE IF field.attrs[i].path = LIT_index
    THEN push_index_per_attribute(
             Append(sqls, LIT_CREATE_INDEX \o table_name \o <<"_">>
                            \o field.ident \o LIT_ON \o table_name \o <<"(">>
                            \o field.ident \o <<")">>),
             table_name, field, i + 1)
    ELSE push_index_per_attribute(sqls, table_name, field, i + 1)

\* derive_create_index, lines 61-77: the loop over one field's attributes,
\* which pushes one statement at the first `index` and continues with the
\* next field.
RECURSIVE push_index(_, _, _, _)
push_index(sqls, table_name, field, i) ==
    IF i > Len(field.attrs)
    THEN sqls
    ELSE IF field.attrs[i].path = LIT_index
    THEN Append(sqls, LIT_CREATE_INDEX \o table_name \o <<"_">> \o field.ident
                        \o LIT_ON \o table_name \o <<"(">> \o field.ident
                        \o <<")">>)
    ELSE push_index(sqls, table_name, field, i + 1)

\* derive_create_index, lines 60-78: the loop over the fields from i on.
RECURSIVE push_indexes(_, _, _, _)
push_indexes(sqls, table_name, fields, i) ==
    IF i > Len(fields)
    THEN sqls
    ELSE push_indexes(push_index(sqls, table_name, fields[i], 1),
                      table_name, fields, i + 1)

\* derive_create_index: the statement texts the generated create_indexes runs.
derive_create_index(input) ==
    LET table_name == determine_table_name(input.attrs)
    IN  IF table_name.tag = "panic"
        THEN table_name
        ELSE [tag |-> "ok",
              table_name |-> table_name.name,
              sqls |-> push_indexes(<<>>, table_name.name, input.fields, 1)]

\* derive_select lines 102-108 and derive_insert lines 153-159: the loop that
\* collects the field identifiers and pushes "<column>, " for each field.
RECURSIVE push_names(_, _, _)
push_names(acc, fields, i) ==
    IF i > Len(fields)
    THEN acc
    ELSE push_names([fields |-> Append(acc.fields, fields[i].ident),
                     sql |-> acc.sql \o fields[i].ident \o LIT_SEP],
                    fields, i + 1)

\* derive_select: the base statement and the field list of the generated select.
derive_select(input) ==
    LET table_name == determine_table_name(input.attrs)
    IN  IF table_name.tag = "panic"
        THEN table_name
        ELSE LET acc == push_names([fields |-> <<>>, sql |-> LIT_SELECT],
                                   input.fields, 1)
             IN  [tag |-> "ok",
                  table_name |-> table_name.name,
                  fields |-> acc.fields,
                  sql |-> pop(pop(acc.sql)) \o LIT_FROM \o table_name.name]

\* derive_insert, lines 163-165: one "?," for each collected field.
RECURSIVE push_placeholders(_, _)
push_placeholders(sql, n) ==
    IF n = 0 THEN sql ELSE push_placeholders(sql \o LIT_PLACEHOLDER, n - 1)

\* derive_insert: the statement and the field list of the generated insert.
derive_insert(input) ==
    LET table_name == determine_table_name(input.attrs)
    IN  IF table_name.tag = "panic"
        THEN table_name
        ELSE LET acc == push_names([fields |-> <<>>,
                                    sql |-> LIT_INSERT_INTO \o table_name.name
                                            \o <<"(">>],
                                   input.fields, 1)
                 cols == pop(pop(acc.sql)) \o LIT_VALUES
                 marks == push_placeholders(cols, Len(acc.fields))
             IN  [tag |-> "ok",
                  table_name |-> table_name.name,
                  fields |-> acc.fields,
                  sql |-> pop(marks) \o <<")">>]

----------------------------------------------------------------------------
(* The record types of src/main.rs.                                        *)

\* Field identifiers: those of main.rs:103-118, and n, s, o, q.
ID ==
    [name |-> <<"n","a","m","e">>,
     tag |-> <<"t","a","g">>,
     file_name |-> <<"f","i","l","e","_","n","a","m","e">>,
     file_size |-> <<"f","i","l","e","_","s","i","z","e">>,
     duration |-> <<"d","u","r","a","t","i","o","n">>,
     video_codec |-> <<"v","i","d","e","o","_","c","o","d","e","c">>,
     video_bit_rate |-> <<"v","i","d","e","o","_","b","i","t","_","r","a","t","e">>,
     video_frame_rate |-> <<"v","i","d","e","o","_","f","r","a","m","e","_","r","a","t","e">>,
     video_width |-> <<"v","i","d","e","o","_","w","i","d","t","h">>,
     video_height |-> <<"v","i","d","e","o","_","h","e","i","g","h","t">>,
     audio_codec |-> <<"a","u","d","i","o","_","c","o","d","e","c">>,
     audio_bit_rate |-> <<"a","u","d","i","o","_","b","i","t","_","r","a","t","e">>,
     n |-> <<"n">>,
     s |-> <<"s">>,
     o |-> <<"o">>,
     q |-> <<"q">>]

\* Token strings: types, attribute paths and attribute tokens (main.rs:102 is
\* `(video)`).
TOKENS ==
    [u32 |-> <<"u","3","2">>,
     Strings |-> <<"S","t","r","i","n","g","s">>,
     Option_String |-> <<"O","p","t","i","o","n"," ","<"," ","S","t","r","i","n","g"," ",">">>,
     std_String |-> <<"s","t","d"," ",":",":"," ","s","t","r","i","n","g"," ",":",":"," ","S", "t","r","i","n","g">>,
     allow |-> <<"a","l","l","o","w">>,
     dead_code |-> <<"(","d","e","a","d","_","c","o","d","e",")">>,
     empty |-> <<"(",")">>,
     t |-> <<"(","t",")">>,
     video |-> <<"(","v","i","d","e","o",")">>]

\* main.rs:101-119: struct VideoEntry with its attributes.
VideoEntry ==
    ItemStruct(
        <<Attribute(LIT_table_name, TOKENS.video)>>,
        <<Field(ID.name, LIT_String, <<Attribute(LIT_primary, <<>>)>>),
          Field(ID.tag, LIT_String, <<Attribute(LIT_index, <<>>)>>),
          Field(ID.file_name, LIT_String, <<>>),
          Field(ID.file_size, TOKENS.u32, <<>>),
          Field(ID.duration, TOKENS.u32, <<Attribute(LIT_index, <<>>)>>),
          Field(ID.video_codec, LIT_String, <<>>),
          Field(ID.video_bit_rate, TOKENS.u32, <<>>),
          Field(ID.video_frame_rate, TOKENS.u32, <<>>),
          Field(ID.video_width, TOKENS.u32, <<>>),
          Field(ID.video_height, TOKENS.u32, <<>>),
          Field(ID.audio_codec, LIT_String, <<>>),
          Field(ID.audio_bit_rate, TOKENS.u32, <<>>)>>)

\* main.rs:121-129: struct BriefVideoEntry with its attributes.
BriefVideoEntry ==
    ItemStruct(
        <<Attribute(LIT_table_name, TOKENS.video)>>,
        <<Field(ID.name, LIT_String, <<>>),
          Field(ID.tag, LIT_String, <<>>),
          Field(ID.file_name, LIT_String, <<>>),
          Field(ID.file_size, TOKENS.u32, <<>>),
          Field(ID.duration, TOKENS.u32, <<>>)>>)

----------------------------------------------------------------------------
(* The inputs the derive macros are applied to: the two record types of    *)
(* main.rs and a bounded family of struct declarations built from a pool   *)
(* of fields and a set of type-level attribute lists.                      *)

\* The longest field list of the family.
MaxFields == 2

\* Fields with the text type and with types that are not it or only resemble
\* it, with no, one or several attributes.
FieldPool ==
    <<Field(ID.name, LIT_String, <<Attribute(LIT_primary, <<>>)>>),
      Field(ID.tag, LIT_String, <<Attribute(LIT_index, <<>>)>>),
      Field(ID.n, TOKENS.u32, <<>>),
      Field(ID.s, TOKENS.Strings,
            <<Attribute(LIT_index, <<>>), Attribute(LIT_primary, <<>>)>>),
      Field(ID.o, TOKENS.Option_String,
            <<Attribute(TOKENS.allow, TOKENS.dead_code),
              Attribute(LIT_index, <<>>), Attribute(LIT_index, <<>>)>>),
      Field(ID.q, TOKENS.std_String, <<Attribute(LIT_primary, <<>>)>>)>>

\* The field lists of at most MaxFields pool fields, no field twice.
FieldLists ==
    UNION {{[i \in 1..n |-> FieldPool[s[i]]] :
              s \in {t \in [1..n -> 1..Len(FieldPool)] :
                       \A i, j \in 1..n : i # j => t[i] # t[j]}} :
           n \in 0..MaxFields}

\* No table_name attribute; one without tokens; one with empty parentheses;
\* one with a value after another attribute; one with the value `video`.
StructAttrLists ==
    {<<>>,
     <<Attribute(LIT_table_name, <<>>)>>,
     <<Attribute(LIT_table_name, TOKENS.empty)>>,
     <<Attribute(TOKENS.allow, TOKENS.dead_code),
       Attribute(LIT_table_name, TOKENS.t)>>,
     <<Attribute(LIT_table_name, TOKENS.video)>>}

GenStructs ==
    {ItemStruct(a, f) : a \in StructAttrLists, f \in FieldLists}
        \cup {VideoEntry, BriefVideoEntry}

----------------------------------------------------------------------------
(* Reading text: prefixes, suffixes and splitting at a separator.          *)

StartsWith(s, p) == Len(p) <= Len(s) /\ SubSeq(s, 1, Len(p)) = p

EndsWith(s, p) ==
    Len(p) <= Len(s) /\ SubSeq(s, Len(s) - Len(p) + 1, Len(s)) = p

\* The first position from i on at which p occurs in s, or 0.
Find(s, p, i) ==
    LET hits == {j \in i..(Len(s) - Len(p) + 1) : SubSeq(s, j, j + Len(p) - 1) = p}
    IN  IF hits = {} THEN 0 ELSE CHOOSE j \in hits : \A k \in hits : j <= k

\* The pieces of s between the occurrences of sep (one piece when there is
\* none, an empty last piece when s ends with sep).
RECURSIVE SplitAt(_, _)
SplitAt(s, sep) ==
    LET j == Find(s, sep, 1)
    IN  IF j = 0
        THEN <<s>>
        ELSE <<SubSeq(s, 1, j - 1)>>
                 \o SplitAt(SubSeq(s, j + Len(sep), Len(s)), sep)

\* The items of a separated list: none for the empty text.
Items(s, sep) == IF Len(s) = 0 THEN <<>> ELSE SplitAt(s, sep)

----------------------------------------------------------------------------
VARIABLES
    input,       \* the struct declaration the derive macros are applied to
    generated,   \* per derive macro: not run, its panic, or what it generated
    db,          \* the relational store behind the connection
    initial,     \* the store as the program found it
    last,        \* the call that has returned and is not yet taken up, if any
    fs           \* the working directory: its directories and their entries

vars == <<input, generated, db, initial, last, fs>>

Generators == {"CreateTable", "CreateIndex", "Select", "Insert"}

NotRun == [tag |-> "none"]

NoCall == [op |-> "none"]

EmptyDb == [tables |-> {}, indexes |-> {}]

\* A working directory without files/, links/ and pending/.
NoFiles == [dirs |-> {}, pending |-> <<>>, files |-> <<>>]

----------------------------------------------------------------------------
(* Build time: each derive macro is an independent expansion of the same   *)
(* struct declaration.                                                     *)

InitGen ==
    /\ input \in GenStructs
    /\ generated = [g \in Generators |-> NotRun]
    /\ db = EmptyDb
    /\ initial = EmptyDb
    /\ last = NoCall
    /\ fs = NoFiles

Expand(g, result) ==
    /\ generated[g] = NotRun
    /\ generated' = [generated EXCEPT ![g] = result]
    /\ UNCHANGED <<input, db, initial, last, fs>>

DeriveCreateTable == Expand("CreateTable", derive_create_table(input))

DeriveCreateIndex == Expand("CreateIndex", derive_create_index(input))

DeriveSelect == Expand("Select", derive_select(input))

DeriveInsert == Expand("Insert", derive_insert(input))

NextGen ==
    \/ DeriveCreateTable
    \/ DeriveCreateIndex
    \/ DeriveSelect
    \/ DeriveInsert

SpecGen == InitGen /\ [][NextGen]_vars

----------------------------------------------------------------------------
(* What the claims say about the generated text, stated from the struct    *)
(* declaration and the statement shapes of the specification.              *)

W_TEXT == <<"T","E","X","T">>
W_INTEGER == <<"I","N","T","E","G","E","R">>
W_NOT == <<"N","O","T">>
W_NULL == <<"N","U","L","L">>
SQL_idx_video_tag ==
    <<"C","R","E","A","T","E"," ","I","N","D","E","X"," ","I","F"," ","N","O",
      "T"," ","E","X","I","S","T","S"," ","i","d","x","_","v","i","d","e","o",
      "_","t","a","g"," ","O","N"," ","v","i","d","e","o","(","t","a","g",")">>

HasTableName(s) == \E i \in 1..Len(s.attrs) : s.attrs[i].path = LIT_table_name

\* The tokens of the struct's (first) table_name attribute.
TableNameTokens(s) ==
    LET i == CHOOSE k \in 1..Len(s.attrs) :
                 /\ s.attrs[k].path = LIT_table_name
                 /\ \A m \in 1..(k - 1) : s.attrs[m].path # LIT_table_name
    IN  s.attrs[i].tokens

\* The value the attribute carries: the tokens between its delimiters.
TableNameValue(s) ==
    LET t == TableNameTokens(s)
    IN  IF Len(t) <= 2 THEN <<>> ELSE SubSeq(t, 2, Len(t) - 1)

Idents(s) == [i \in 1..Len(s.fields) |-> s.fields[i].ident]

HasAttr(field, path) == \E k \in 1..Len(field.attrs) : field.attrs[k].path = path

CountAttr(field, path) ==
    Cardinality({k \in 1..Len(field.attrs) : field.attrs[k].path = path})

\* The column definitions of a create-table statement for the struct's table:
\* the text between "<table_name>(" and the closing ")", split at ", ".
ColumnList(sql) ==
    LET head == LIT_CREATE_TABLE \o TableNameValue(input) \o <<"(">>
    IN  Items(SubSeq(sql, Len(head) + 1, Len(sql) - 1), LIT_SEP)

\* C1: for every record schema, shortest field lists included, the generated
\* create-table statement is CREATE TABLE IF NOT EXISTS <table_name>(...) with
\* the table name intact, and its column list has one column per field, column i
\* named after field i, with no trailing separator.
C1_CreateTableColumns ==
    generated["CreateTable"].tag = "ok" =>
        LET sql == generated["CreateTable"].sql
            head == LIT_CREATE_TABLE \o TableNameValue(input) \o <<"(">>
            cols == ColumnList(sql)
        IN  /\ StartsWith(sql, head)
            /\ EndsWith(sql, <<")">>)
            /\ Len(cols) = Len(input.fields)
            /\ \A i \in 1..Len(cols) :
                   StartsWith(cols[i], input.fields[i].ident \o <<" ">>)
            /\ \A i \in 1..Len(cols) : ~EndsWith(cols[i], <<",">>)

\* The statement of C1 for the structs with at least one field.
CreateTableColumnsOfNonEmpty ==
    Len(input.fields) > 0 => C1_CreateTableColumns

\* C2: the column type of field i is TEXT if and only if the field's type token
\* is exactly `String`, and INTEGER for every other token; every column carries
\* NOT NULL.
C2_ColumnTypeExactMatch ==
    (generated["CreateTable"].tag = "ok" /\ Len(input.fields) > 0) =>
        LET cols == ColumnList(generated["CreateTable"].sql)
        IN  /\ Len(cols) = Len(input.fields)
            /\ \A i \in 1..Len(cols) :
                   LET words == SplitAt(cols[i], <<" ">>)
                   IN  /\ Len(words) >= 4
                       /\ words[2] \in {W_TEXT, W_INTEGER}
                       /\ words[2] = W_TEXT <=> input.fields[i].ty = LIT_String
                       /\ words[3] = W_NOT
                       /\ words[4] = W_NULL

\* A create-table statement was generated for a struct with a `String` field and
\* a field whose type token only contains `String`.
C2_Witness ==
    /\ generated["CreateTable"].tag = "ok"
    /\ \E i, j \in 1..Len(input.fields) :
           /\ input.fields[i].ty = LIT_String
           /\ input.fields[j].ty # LIT_String
           /\ Find(input.fields[j].ty, LIT_String, 1) > 0

\* C6: without a table_name attribute every generator aborts with "no attribute
\* 'table_name'", with one that carries no value with "attribute 'table_name' has
\* no value", in both cases with nothing generated; with a value, the resolved
\* table name is exactly that value.
C6_TableNameResolution ==
    \A g \in Generators :
        generated[g] # NotRun =>
            IF ~HasTableName(input)
            THEN generated[g] = Panic("no attribute 'table_name'")
            ELSE IF TableNameValue(input) = <<>>
            THEN generated[g] = Panic("attribute 'table_name' has no value")
            ELSE /\ generated[g].tag = "ok"
                 /\ generated[g].table_name = TableNameValue(input)

\* All four generators ran on a struct whose table_name attribute has empty
\* parentheses, and all four aborted.
C6_Witness ==
    /\ HasTableName(input)
    /\ TableNameTokens(input) = TOKENS.empty
    /\ \A g \in Generators : generated[g].tag = "panic"

\* The statement the specification gives for an indexed field.
IndexStatement(table_name, field_name) ==
    LIT_CREATE_INDEX \o table_name \o <<"_">> \o field_name \o LIT_ON
        \o table_name \o <<"(">> \o field_name \o <<")">>

\* C7: derive_create_index emits exactly one statement per field carrying the
\* `index` marker, in declaration order, with the exact text CREATE INDEX IF NOT
\* EXISTS idx_<table_name>_<field_name> ON <table_name>(<field_name>); for table
\* `video` and field `tag` the index is idx_video_tag.
C7_IndexStatements ==
    generated["CreateIndex"].tag = "ok" =>
        LET indexed == SelectSeq(input.fields, LAMBDA f : HasAttr(f, LIT_index))
            sqls == generated["CreateIndex"].sqls
        IN  /\ Len(sqls) = Len(indexed)
            /\ \A i \in 1..Len(indexed) :
                   sqls[i] = IndexStatement(TableNameValue(input), indexed[i].ident)
            /\ input = VideoEntry => sqls[1] = SQL_idx_video_tag

\* Index statements were generated for a struct with a field that carries the
\* `index` marker twice and a field that does not carry it.
C7_Witness ==
    /\ generated["CreateIndex"].tag = "ok"
    /\ \E i, j \in 1..Len(input.fields) :
           /\ CountAttr(input.fields[i], LIT_index) > 1
           /\ ~HasAttr(input.fields[j], LIT_index)

\* C9 (statement text): the generated insert statement is INSERT INTO
\* <table_name>(<col1>, <col2>, ...) VALUES (?, ?, ...), the columns being the
\* fields in declaration order, with one `?` per field, and the values bound are
\* the fields in the same order.
C9_InsertStatementShape ==
    generated["Insert"].tag = "ok" =>
        LET sql == generated["Insert"].sql
            head == LIT_INSERT_INTO \o TableNameValue(input) \o <<"(">>
            j == Find(sql, LIT_VALUES, 1)
            cols == Items(SubSeq(sql, Len(head) + 1, j - 1), LIT_SEP)
            marks == Items(SubSeq(sql, j + Len(LIT_VALUES), Len(sql) - 1), <<",">>)
        IN  /\ StartsWith(sql, head)
            /\ j > Len(head)
            /\ EndsWith(sql, <<")">>)
            /\ cols = Idents(input)
            /\ Len(marks) = Len(input.fields)
            /\ \A i \in 1..Len(marks) : marks[i] \in {<<"?">>, <<" ", "?">>}
            /\ generated["Insert"].fields = Idents(input)

\* The statement of C9 for the structs with at least one field.
InsertStatementShapeOfNonEmpty ==
    Len(input.fields) > 0 => C9_InsertStatementShape

W_NOT_NULL == <<" ","N","O","T"," ","N","U","L","L">>
W_PRIMARY_KEY == <<" ","P","R","I","M","A","R","Y"," ","K","E","Y">>

\* The number of places of a text at which a piece of text occurs.
Occurrences(s, p) ==
    Cardinality({i \in 1..Len(s) :
                    i + Len(p) - 1 <= Len(s) /\ SubSeq(s, i, i + Len(p) - 1) = p})

\* The places of the fields that carry the `primary` marker.
MarkedPrimary ==
    {i \in 1..Len(input.fields) : HasAttr(input.fields[i], LIT_primary)}

\* C12: in the create-table statement a column carries " PRIMARY KEY", right
\* after NOT NULL, if and only if its field carries a `primary` marker; with n
\* marked fields the statement holds exactly n PRIMARY KEY clauses, one on each
\* marked column, and generation does not fail.
C12_PrimaryKeyPerMarkedField ==
    (/\ generated["CreateTable"].tag # "none"
     /\ HasTableName(input)
     /\ TableNameValue(input) # <<>>) =>
        /\ generated["CreateTable"].tag = "ok"
        /\ Occurrences(generated["CreateTable"].sql, W_PRIMARY_KEY)
               = Cardinality(MarkedPrimary)
        /\ Len(input.fields) > 0 =>
               LET cols == ColumnList(generated["CreateTable"].sql)
               IN  \A i \in 1..Len(input.fields) :
                       IF i \in MarkedPrimary
                       THEN /\ EndsWith(cols[i], W_NOT_NULL \o W_PRIMARY_KEY)
                            /\ Occurrences(cols[i], W_PRIMARY_KEY) = 1
                       ELSE /\ EndsWith(cols[i], W_NOT_NULL)
                            /\ Occurrences(cols[i], W_PRIMARY_KEY) = 0

\* A create-table statement was generated for a struct with two fields that
\* carry the marker, one of them after another attribute.
C12_Witness ==
    /\ generated["CreateTable"].tag = "ok"
    /\ Cardinality(MarkedPrimary) = 2
    /\ \E i \in MarkedPrimary : input.fields[i].attrs[1].path # LIT_primary
    /\ Occurrences(generated["CreateTable"].sql, W_PRIMARY_KEY) = 2

----------------------------------------------------------------------------
(* The relational store (SQLite behind rusqlite::Connection), as far as    *)
(* the statements of this program use it.  A statement is read as SQLite   *)
(* reads it: split into tokens (words and single punctuation characters,   *)
(* blanks separating them), then matched against the statement forms.      *)

Digits == <<"0","1","2","3","4","5","6","7","8","9">>
UpperCase ==
    <<"A","B","C","D","E","F","G","H","I","J","K","L","M","N","O","P","Q","R",
      "S","T","U","V","W","X","Y","Z">>
LowerCase ==
    <<"a","b","c","d","e","f","g","h","i","j","k","l","m","n","o","p","q","r",
      "s","t","u","v","w","x","y","z">>

\* The characters of words, in ASCII order.
Ascii == Digits \o UpperCase \o <<"_">> \o LowerCase

WordChars == {Ascii[k] : k \in 1..Len(Ascii)}

\* The ASCII rank of a word character.
Code(c) == CHOOSE k \in 1..Len(Ascii) : Ascii[k] = c

\* The words of the statements, as SQLite reads them.
KW ==
    [create |-> <<"C","R","E","A","T","E">>,
     table |-> <<"T","A","B","L","E">>,
     if |-> <<"I","F">>,
     not |-> <<"N","O","T">>,
     exists |-> <<"E","X","I","S","T","S">>,
     null |-> <<"N","U","L","L">>,
     primary |-> <<"P","R","I","M","A","R","Y">>,
     key |-> <<"K","E","Y">>,
     index |-> <<"I","N","D","E","X">>,
     on |-> <<"O","N">>,
     select |-> <<"S","E","L","E","C","T">>,
     from |-> <<"F","R","O","M">>,
     insert |-> <<"I","N","S","E","R","T">>,
     into |-> <<"I","N","T","O">>,
     values |-> <<"V","A","L","U","E","S">>,
     where |-> <<"W","H","E","R","E">>,
     and |-> <<"A","N","D">>,
     order |-> <<"O","R","D","E","R">>,
     by |-> <<"B","Y">>,
     glob |-> <<"G","L","O","B">>,
     between |-> <<"B","E","T","W","E","E","N">>,
     delete |-> <<"D","E","L","E","T","E">>,
     text |-> <<"T","E","X","T">>,
     integer |-> <<"I","N","T","E","G","E","R">>]

Keywords == {KW[k] : k \in DOMAIN KW} \ {KW.text, KW.integer}

\* The positions 1..n in increasing order.
Indices(n) == [i \in 1..n |-> i]

\* The pieces of a text that start and end at the given positions.
Pieces(s, from, to) == [k \in 1..Len(from) |-> SubSeq(s, from[k], to[k])]

\* The tokens of a statement text.
Tokens(s) ==
    Pieces(s,
           SelectSeq(Indices(Len(s)), LAMBDA i :
               /\ s[i] # " "
               /\ (s[i] \notin WordChars \/ i = 1 \/ s[i - 1] \notin WordChars)),
           SelectSeq(Indices(Len(s)), LAMBDA i :
               /\ s[i] # " "
               /\ (s[i] \notin WordChars \/ i = Len(s)
                      \/ s[i + 1] \notin WordChars)))

\* A name: a word that is no keyword.
IsName(tok) ==
    /\ Len(tok) > 0
    /\ \A k \in 1..Len(tok) : tok[k] \in WordChars
    /\ tok \notin Keywords
    /\ tok[1] \notin {Digits[k] : k \in 1..Len(Digits)}

\* The runs of tokens before, between and after the commas at the given
\* positions.
Runs(toks, commas) ==
    [k \in 1..(Len(commas) + 1) |->
        SubSeq(toks,
               IF k = 1 THEN 1 ELSE commas[k - 1] + 1,
               IF k = Len(commas) + 1 THEN Len(toks) ELSE commas[k] - 1)]

\* The runs of tokens between the commas of a token list (none for an empty
\* list).
CommaList(toks) ==
    IF Len(toks) = 0
    THEN <<>>
    ELSE Runs(toks, SelectSeq(Indices(Len(toks)), LAMBDA i : toks[i] = <<",">>))

\* Whether every run is one name.
AreNames(runs) == \A i \in 1..Len(runs) : Len(runs[i]) = 1 /\ IsName(runs[i][1])

\* A stored or bound value: SQLite TEXT or INTEGER.
Text(v) == [t |-> "text", v |-> v]

Integer(v) == [t |-> "int", v |-> v]

Range(seq) == {seq[i] : i \in 1..Len(seq)}

\* b follows a in byte order (SQLite's BINARY collation).
LessText(a, b) ==
    \E i \in 1..(Len(a) + 1) :
        /\ i <= Len(b)
        /\ \A k \in 1..(i - 1) : a[k] = b[k]
        /\ (i > Len(a) \/ Code(a[i]) < Code(b[i]))

\* SQLite's order of values: numbers by value and before every text.
Less(a, b) ==
    IF a.t = "int"
    THEN IF b.t = "int" THEN a.v < b.v ELSE TRUE
    ELSE IF b.t = "int" THEN FALSE ELSE LessText(a.v, b.v)

\* The number a text of decimal digits writes.
RECURSIVE ParseInt(_)
ParseInt(s) ==
    IF Len(s) = 0
    THEN 0
    ELSE 10 * ParseInt(pop(s))
             + (CHOOSE d \in 0..9 : Digits[d + 1] = s[Len(s)])

LooksLikeInt(s) ==
    /\ Len(s) > 0
    /\ \A k \in 1..Len(s) : s[k] \in Range(Digits)

\* Whether every run is one item of a select list: a column name or a number.
AreSelectItems(runs) ==
    \A i \in 1..Len(runs) :
        Len(runs[i]) = 1 /\ (IsName(runs[i][1]) \/ LooksLikeInt(runs[i][1]))

\* Comparing with a column of INTEGER affinity turns a bound text that writes a
\* number into that number.
Coerce(column, value) ==
    IF column.type = KW.integer /\ value.t = "text" /\ LooksLikeInt(value.v)
    THEN Integer(ParseInt(value.v))
    ELSE value

\* GLOB with a pattern of plain characters, or of plain characters and a final *.
Glob(pattern, value) ==
    /\ pattern.t = "text"
    /\ value.t = "text"
    /\ IF EndsWith(pattern.v, <<"*">>)
       THEN StartsWith(value.v, pop(pattern.v))
       ELSE value.v = pattern.v

HasTable(store, name) == \E t \in store.tables : t.name = name

TableOf(store, name) == CHOOSE t \in store.tables : t.name = name

HasColumn(table, name) == \E i \in 1..Len(table.cols) : table.cols[i].name = name

ColumnOf(table, name) ==
    table.cols[CHOOSE i \in 1..Len(table.cols) : table.cols[i].name = name]

\* The outcome of a statement: success with the store it leaves, or the store's
\* error with the store unchanged.
Done(store) == [ok |-> TRUE, err |-> "", db |-> store]

Failed(store, err) == [ok |-> FALSE, err |-> err, db |-> store]

\* The number of parameter marks in a statement.
Marks(toks) == Cardinality({i \in 1..Len(toks) : toks[i] = <<"?">>})

\* A statement the store cannot read.
Unreadable == [kind |-> "error"]

\* CREATE TABLE|INDEX [IF NOT EXISTS] <name> ...: whether the guard is there, and
\* the place of the name.
IsGuarded(toks) ==
    Len(toks) >= 5 /\ SubSeq(toks, 3, 5) = <<KW.if, KW.not, KW.exists>>

NameAt(toks) == IF IsGuarded(toks) THEN 6 ELSE 3

\* <name> <type> NOT NULL [PRIMARY KEY]
IsColumnDef(d) ==
    /\ Len(d) \in {4, 6}
    /\ IsName(d[1])
    /\ IsName(d[2])
    /\ d[3] = KW.not
    /\ d[4] = KW.null
    /\ Len(d) = 6 => (d[5] = KW.primary /\ d[6] = KW.key)

\* CREATE TABLE [IF NOT EXISTS] <name>(<column definition>, ...), its name at
\* the given place and its column definitions given.
CreateTableOf(toks, at, defs) ==
    IF /\ Len(toks) >= at + 3
       /\ IsName(toks[at])
       /\ toks[at + 1] = <<"(">>
       /\ toks[Len(toks)] = <<")">>
       /\ \A i \in 1..Len(defs) : IsColumnDef(defs[i])
    THEN [kind |-> "create table", marks |-> Marks(toks),
          guarded |-> IsGuarded(toks), name |-> toks[at],
          cols |-> [i \in 1..Len(defs) |->
                       [name |-> defs[i][1], type |-> defs[i][2],
                        pk |-> Len(defs[i]) = 6]]]
    ELSE Unreadable

\* CREATE INDEX [IF NOT EXISTS] <index> ON <table>(<column>), the index name at
\* the given place.
CreateIndexOf(toks, at) ==
    IF /\ Len(toks) = at + 5
       /\ IsName(toks[at])
       /\ toks[at + 1] = KW.on
       /\ IsName(toks[at + 2])
       /\ toks[at + 3] = <<"(">>
       /\ IsName(toks[at + 4])
       /\ toks[at + 5] = <<")">>
    THEN [kind |-> "create index", marks |-> Marks(toks),
          guarded |-> IsGuarded(toks), name |-> toks[at],
          table |-> toks[at + 2], column |-> toks[at + 4]]
    ELSE Unreadable

\* INSERT INTO <table>(<column>, ...) VALUES (?, ...), the column list and the
\* value list given.
InsertOf(toks, cols, values) ==
    IF /\ AreNames(cols)
       /\ \A i \in 1..Len(values) : values[i] = << <<"?">> >>
    THEN [kind |-> "insert", marks |-> Marks(toks), table |-> toks[3],
          cols |-> [i \in 1..Len(cols) |-> cols[i][1]], values |-> Len(values)]
    ELSE Unreadable

\* ... the column list ending before position p.
InsertAt(toks, p) ==
    IF /\ Len(toks) >= 10
       /\ toks[2] = KW.into
       /\ IsName(toks[3])
       /\ toks[4] = <<"(">>
       /\ p > 5
       /\ p + 3 < Len(toks)
       /\ toks[p + 1] = KW.values
       /\ toks[p + 2] = <<"(">>
       /\ toks[Len(toks)] = <<")">>
    THEN InsertOf(toks, CommaList(SubSeq(toks, 5, p - 1)),
                  CommaList(SubSeq(toks, p + 3, Len(toks) - 1)))
    ELSE Unreadable

\* One condition of a WHERE clause, and the conditions after it.
Cons(cond, more) ==
    IF more.kind = "error"
    THEN Unreadable
    ELSE [kind |-> "where", conds |-> <<cond>> \o more.conds]

\* The conditions of a WHERE clause, from the token after WHERE or AND on:
\* <column>=?, <column> GLOB ?, <column> BETWEEN ? AND ?, joined by AND.
RECURSIVE Conditions(_)
Conditions(toks) ==
    IF /\ Len(toks) >= 3
       /\ IsName(toks[1])
       /\ toks[2] \in {<<"=">>, KW.glob}
       /\ toks[3] = <<"?">>
       /\ Len(toks) > 3 => toks[4] = KW.and
    THEN Cons([column |-> toks[1],
               kind |-> IF toks[2] = KW.glob THEN "glob" ELSE "eq"],
              IF Len(toks) = 3
              THEN [kind |-> "where", conds |-> <<>>]
              ELSE Conditions(SubSeq(toks, 5, Len(toks))))
    ELSE IF /\ Len(toks) >= 5
            /\ IsName(toks[1])
            /\ SubSeq(toks, 2, 5) = <<KW.between, <<"?">>, KW.and, <<"?">> >>
            /\ Len(toks) > 5 => toks[6] = KW.and
    THEN Cons([column |-> toks[1], kind |-> "between"],
              IF Len(toks) = 5
              THEN [kind |-> "where", conds |-> <<>>]
              ELSE Conditions(SubSeq(toks, 7, Len(toks))))
    ELSE Unreadable

\* [WHERE <conditions>]
ParseWhere(toks) ==
    IF Len(toks) = 0
    THEN [kind |-> "where", conds |-> <<>>]
    ELSE IF toks[1] = KW.where
    THEN Conditions(SubSeq(toks, 2, Len(toks)))
    ELSE Unreadable

\* SELECT <column>, ... FROM <table> [WHERE <conditions>] [ORDER BY <column>],
\* the select list, the order column (if any) and the conditions given.
SelectOf(toks, table, cols, order, filter) ==
    IF AreSelectItems(cols) /\ filter.kind # "error"
    THEN [kind |-> "select", marks |-> Marks(toks), table |-> table,
          cols |-> [i \in 1..Len(cols) |-> cols[i][1]],
          conds |-> filter.conds, order |-> order]
    ELSE Unreadable

\* ... the rest after the table name given, with ORDER BY at position o of it
\* (0: none).
SelectOrder(toks, f, rest, o) ==
    IF o = 0
    THEN SelectOf(toks, toks[f + 1], CommaList(SubSeq(toks, 2, f - 1)), <<>>,
                  ParseWhere(rest))
    ELSE IF Len(rest) = o + 2 /\ IsName(rest[o + 2])
    THEN SelectOf(toks, toks[f + 1], CommaList(SubSeq(toks, 2, f - 1)),
                  <<rest[o + 2]>>, ParseWhere(SubSeq(rest, 1, o - 1)))
    ELSE Unreadable

\* ... FROM at position f.
SelectFrom(toks, f) ==
    IF Len(toks) >= 4 /\ f >= 3 /\ f < Len(toks) /\ IsName(toks[f + 1])
    THEN SelectOrder(toks, f, SubSeq(toks, f + 2, Len(toks)),
                     Find(SubSeq(toks, f + 2, Len(toks)), <<KW.order, KW.by>>, 1))
    ELSE Unreadable

\* DELETE FROM <table> [WHERE <conditions>], the conditions given.
DeleteFrom(toks, filter) ==
    IF Len(toks) >= 3 /\ IsName(toks[3]) /\ filter.kind # "error"
    THEN [kind |-> "delete", marks |-> Marks(toks), table |-> toks[3],
          conds |-> filter.conds]
    ELSE Unreadable

\* The statement a token list writes.
Parse(toks) ==
    IF Len(toks) < 2
    THEN Unreadable
    ELSE IF toks[1] = KW.create /\ toks[2] = KW.table
    THEN CreateTableOf(toks, NameAt(toks),
                       CommaList(SubSeq(toks, NameAt(toks) + 2, Len(toks) - 1)))
    ELSE IF toks[1] = KW.create /\ toks[2] = KW.index
    THEN CreateIndexOf(toks, NameAt(toks))
    ELSE IF toks[1] = KW.insert
    THEN InsertAt(toks, Find(toks, << <<")">> >>, 1))
    ELSE IF toks[1] = KW.select
    THEN SelectFrom(toks, Find(toks, <<KW.from>>, 1))
    ELSE IF toks[1] = KW.delete /\ toks[2] = KW.from
    THEN DeleteFrom(toks, ParseWhere(SubSeq(toks, 4, Len(toks))))
    ELSE Unreadable

\* Whether two places of a sequence hold the same.
HasDuplicates(seq) == \E i, j \in 1..Len(seq) : i # j /\ seq[i] = seq[j]

RunCreateTable(store, stmt, params) ==
    IF HasTable(store, stmt.name)
    THEN IF stmt.guarded
         THEN Done(store)
         ELSE Failed(store, "table already exists")
    ELSE IF HasDuplicates([i \in 1..Len(stmt.cols) |-> stmt.cols[i].name])
    THEN Failed(store, "duplicate column name")
    ELSE IF Cardinality({i \in 1..Len(stmt.cols) : stmt.cols[i].pk}) > 1
    THEN Failed(store, "table has more than one primary key")
    ELSE IF Len(params) # stmt.marks
    THEN Failed(store, "wrong number of parameters")
    ELSE Done([store EXCEPT !.tables =
                   @ \cup {[name |-> stmt.name, cols |-> stmt.cols,
                            rows |-> <<>>]}])

RunCreateIndex(store, stmt, params) ==
    IF \E x \in store.indexes : x.name = stmt.name
    THEN IF stmt.guarded
         THEN Done(store)
         ELSE Failed(store, "index already exists")
    ELSE IF ~HasTable(store, stmt.table)
    THEN Failed(store, "no such table")
    ELSE IF ~HasColumn(TableOf(store, stmt.table), stmt.column)
    THEN Failed(store, "no such column")
    ELSE IF Len(params) # stmt.marks
    THEN Failed(store, "wrong number of parameters")
    ELSE Done([store EXCEPT !.indexes =
                   @ \cup {[name |-> stmt.name, table |-> stmt.table,
                            column |-> stmt.column]}])

\* A row is added to a table unless it leaves a column without a value or
\* repeats a primary key.
AddRow(store, table, row) ==
    IF \E i \in 1..Len(table.cols) : table.cols[i].name \notin DOMAIN row
    THEN Failed(store, "NOT NULL constraint failed")
    ELSE IF \E i \in 1..Len(table.cols), k \in 1..Len(table.rows) :
                /\ table.cols[i].pk
                /\ table.rows[k][table.cols[i].name] = row[table.cols[i].name]
    THEN Failed(store, "UNIQUE constraint failed")
    ELSE Done([store EXCEPT !.tables =
                   (@ \ {table}) \cup {[table EXCEPT !.rows = Append(@, row)]}])

\* The i-th parameter is the value of the i-th column of the column list.
RunInsert(store, stmt, params) ==
    IF ~HasTable(store, stmt.table)
    THEN Failed(store, "no such table")
    ELSE IF \E i \in 1..Len(stmt.cols) :
                ~HasColumn(TableOf(store, stmt.table), stmt.cols[i])
    THEN Failed(store, "no such column")
    ELSE IF HasDuplicates(stmt.cols)
    THEN Failed(store, "duplicate column name")
    ELSE IF stmt.values # Len(stmt.cols)
    THEN Failed(store, "values for columns")
    ELSE IF Len(params) # stmt.marks
    THEN Failed(store, "wrong number of parameters")
    ELSE AddRow(store, TableOf(store, stmt.table),
                [c \in Range(stmt.cols) |->
                    params[CHOOSE i \in 1..Len(stmt.cols) : stmt.cols[i] = c]])

\* The position of the first parameter of condition k.
FirstParam(conds, k) ==
    1 + Cardinality({j \in 1..(k - 1) : conds[j].kind # "between"})
      + 2 * Cardinality({j \in 1..(k - 1) : conds[j].kind = "between"})

\* Whether a value of a column satisfies a condition under its parameters a
\* and b.
Satisfies(column, value, kind, a, b) ==
    IF kind = "eq"
    THEN value = Coerce(column, a)
    ELSE IF kind = "glob"
    THEN Glob(a, value)
    ELSE ~Less(value, Coerce(column, a)) /\ ~Less(Coerce(column, b), value)

\* Whether a row satisfies condition k under the bound parameters.
Holds(table, row, conds, k, params) ==
    Satisfies(ColumnOf(table, conds[k].column), row[conds[k].column],
              conds[k].kind, params[FirstParam(conds, k)],
              IF conds[k].kind = "between"
              THEN params[FirstParam(conds, k) + 1]
              ELSE params[FirstParam(conds, k)])

\* The rows of a table that satisfy every condition.
Matching(table, conds, params) ==
    SelectSeq(table.rows,
              LAMBDA row : \A k \in 1..Len(conds) :
                               Holds(table, row, conds, k, params))

\* The rows that satisfy every condition leave the table.
RunDelete(store, stmt, params) ==
    IF ~HasTable(store, stmt.table)
    THEN Failed(store, "no such table")
    ELSE IF \E k \in 1..Len(stmt.conds) :
                ~HasColumn(TableOf(store, stmt.table), stmt.conds[k].column)
    THEN Failed(store, "no such column")
    ELSE IF Len(params) # stmt.marks
    THEN Failed(store, "wrong number of parameters")
    ELSE Done([store EXCEPT !.tables =
                   (@ \ {TableOf(store, stmt.table)})
                       \cup {[TableOf(store, stmt.table) EXCEPT !.rows =
                                 SelectSeq(@, LAMBDA row :
                                     row \notin Range(Matching(
                                         TableOf(store, stmt.table),
                                         stmt.conds, params)))]}])

\* A statement that returns no rows is run.
Run(store, stmt, params) ==
    IF stmt.kind = "create table"
    THEN RunCreateTable(store, stmt, params)
    ELSE IF stmt.kind = "create index"
    THEN RunCreateIndex(store, stmt, params)
    ELSE IF stmt.kind = "insert"
    THEN RunInsert(store, stmt, params)
    ELSE IF stmt.kind = "delete"
    THEN RunDelete(store, stmt, params)
    ELSE Failed(store, "syntax error")

\* Connection::execute: run one statement that returns no rows.
Execute(store, sql, params) == Run(store, Parse(Tokens(sql)), params)

\* The number of rows that come before each row in ascending order of a column,
\* rows with equal values in their stored order.
Rank(rows, column) ==
    [i \in 1..Len(rows) |->
        Cardinality({j \in 1..Len(rows) :
            \/ Less(rows[j][column], rows[i][column])
            \/ ~Less(rows[i][column], rows[j][column]) /\ j < i})]

Ranked(rows, rank) ==
    [k \in 1..Len(rows) |-> rows[CHOOSE i \in 1..Len(rows) : rank[i] = k - 1]]

OrderBy(rows, column) == Ranked(rows, Rank(rows, column))

\* The selected values of each row, in select-list order.
Project(rows, cols) ==
    [r \in 1..Len(rows) |->
        [i \in 1..Len(cols) |->
            IF LooksLikeInt(cols[i])
            THEN Integer(ParseInt(cols[i]))
            ELSE rows[r][cols[i]]]]

Rows(rows) == [ok |-> TRUE, err |-> "", rows |-> rows]

NoRows(err) == [ok |-> FALSE, err |-> err, rows |-> <<>>]

RunSelect(store, stmt, params) ==
    IF stmt.kind # "select"
    THEN NoRows("syntax error")
    ELSE IF ~HasTable(store, stmt.table)
    THEN NoRows("no such table")
    ELSE IF \E c \in {x \in Range(stmt.cols) : ~LooksLikeInt(x)}
                       \cup Range(stmt.order)
                       \cup {stmt.conds[k].column : k \in 1..Len(stmt.conds)} :
                ~HasColumn(TableOf(store, stmt.table), c)
    THEN NoRows("no such column")
    ELSE IF Len(params) # stmt.marks
    THEN NoRows("wrong number of parameters")
    ELSE IF Len(stmt.order) = 0
    THEN Rows(Project(Matching(TableOf(store, stmt.table), stmt.conds, params),
                      stmt.cols))
    ELSE Rows(Project(OrderBy(Matching(TableOf(store, stmt.table), stmt.conds,
                                       params),
                              stmt.order[1]),
                      stmt.cols))

\* Statement::query_map: the rows a SELECT statement returns.
Query(store, sql, params) == RunSelect(store, Parse(Tokens(sql)), params)

----------------------------------------------------------------------------
(* The operations the derive macros generate (the quote! blocks of         *)
(* src/macros/src/lib.rs).  A result is Ok or the store's error, with the  *)
(* store the call leaves and the statements it sent to the connection.     *)

Sent(sql, params) == [sql |-> sql, params |-> params]

\* The result of a call from the outcome of its last statement.
Outcome(r, sent) == [ok |-> r.ok, err |-> r.err, db |-> r.db, sent |-> sent]

\* create_table, lines 45-48: db.execute(#sql, [])?; Ok(())
create_table(gen, store) ==
    Outcome(Execute(store, gen.sql, <<>>), <<Sent(gen.sql, <<>>)>>)

\* create_indexes, lines 84-89: db.execute(#sqls, [])? for each statement from
\* the i-th on, then Ok(()).  The ? returns the error of the statement that
\* fails.
RECURSIVE create_indexes_from(_, _, _, _)
RECURSIVE create_indexes_after(_, _, _, _)
\* A create_indexes that goes on after a statement has failed (C8 tells it
\* from the ? of the generated code).
create_indexes_continue(gen, r, i, sent) ==
    create_indexes_from(gen, r.db, i + 1, sent)

create_indexes_after(gen, r, i, sent) ==
    IF ~r.ok
    THEN Outcome(r, sent)
    ELSE create_indexes_from(gen, r.db, i + 1, sent)

create_indexes_from(gen, store, i, sent) ==
    IF i > Len(gen.sqls)
    THEN Outcome(Done(store), sent)
    ELSE create_indexes_after(gen, Execute(store, gen.sqls[i], <<>>), i,
                              Append(sent, Sent(gen.sqls[i], <<>>)))

create_indexes(gen, store) == create_indexes_from(gen, store, 1, <<>>)

\* The values of the fields in the reverse of declaration order (C3 tells it
\* from the parameter list of the generated insert).
insert_params_reversed(gen, self) ==
    [i \in 1..Len(gen.fields) |-> self[gen.fields[Len(gen.fields) + 1 - i]]]

\* insert, line 175: params![self.f1, self.f2, ...]
insert_params(gen, self) == [i \in 1..Len(gen.fields) |-> self[gen.fields[i]]]

\* insert, lines 172-177: prepare #sql, bind the parameters, execute.
insert(gen, self, store) ==
    Outcome(Execute(store, gen.sql, insert_params(gen, self)),
            <<Sent(gen.sql, insert_params(gen, self))>>)

\* Default::default() of a field: the empty String, the number 0.
DefaultOf(ty) == IF ty = LIT_String THEN Text(<<>>) ELSE Integer(0)

\* Self::default()
default(struct) ==
    [f \in {struct.fields[k].ident : k \in 1..Len(struct.fields)} |->
        DefaultOf((CHOOSE x \in Range(struct.fields) : x.ident = f).ty)]

\* Whether row.get converts a stored value to a field of the type: a String
\* field takes a text, a number field a number that is not negative.
FromSqlOk(ty, value) ==
    IF ty = LIT_String THEN value.t = "text" ELSE value.t = "int" /\ value.v >= 0

\* select, lines 125-131: the row closure: entry.#fields = row.get(i)?; i += 1
\* for each field from the k-th on.
RECURSIVE assign_fields(_, _, _, _)
assign_fields(entry, fields, row, k) ==
    IF k > Len(fields)
    THEN entry
    ELSE assign_fields([entry EXCEPT ![fields[k]] = row[k]], fields, row, k + 1)

\* select, lines 122-137: the rows of the query become entries, pushed in the
\* order the query returns them; a value that does not convert is an error.
collect(gen, struct, q, entry, sent) ==
    IF ~q.ok
    THEN [ok |-> FALSE, err |-> q.err, result |-> <<>>, sent |-> sent]
    ELSE IF \E r \in 1..Len(q.rows), k \in 1..Len(gen.fields) :
                ~FromSqlOk(struct.fields[k].ty, q.rows[r][k])
    THEN [ok |-> FALSE, err |-> "invalid column type", result |-> <<>>,
          sent |-> sent]
    ELSE [ok |-> TRUE, err |-> "",
          result |-> [r \in 1..Len(q.rows) |->
                         assign_fields(entry, gen.fields, q.rows[r], 1)],
          sent |-> sent]

\* A statement that leaves the filter text out (C10 tells it from the
\* statement of the generated select).
select_sql_unfiltered(gen, where_expr) == gen.sql

\* select, lines 118-121: sql = #sql; if !where_expr.is_empty() { sql + " " +
\* where_expr }
select_sql(gen, where_expr) ==
    IF Len(where_expr) > 0 THEN gen.sql \o <<" ">> \o where_expr ELSE gen.sql

\* select, lines 117-138
select(gen, struct, store, where_expr, where_params) ==
    collect(gen, struct,
            Query(store, select_sql(gen, where_expr), where_params),
            default(struct),
            <<Sent(select_sql(gen, where_expr), where_params)>>)

----------------------------------------------------------------------------
(* src/main.rs: the filter of the list command and the store setup.        *)

\* main.rs:190-211: the literals of prepare_where_clause.
LIT_clause ==
    [name_GLOB |-> <<"n","a","m","e"," ","G","L","O","B"," ","?">>,
     tag_eq |-> <<"t","a","g","=","?">>,
     duration_BETWEEN |-> <<"d","u","r","a","t","i","o","n"," ","B","E","T","W","E","E","N"," ","?", " ","A","N","D"," ","?">>,
     ORDER_BY_name |-> <<"O","R","D","E","R"," ","B","Y"," ","n","a","m","e">>,
     WHERE |-> <<"W","H","E","R","E"," ">>,
     AND |-> <<" ","A","N","D"," ">>,
     then_ORDER_BY_name |-> <<" ","O","R","D","E","R"," ","B","Y"," ","n","a","m","e">>]

\* Option<T>
None == [some |-> FALSE]

Some(x) == [some |-> TRUE, v |-> x]

\* str::to_ascii_uppercase
to_ascii_uppercase(s) ==
    [i \in 1..Len(s) |->
        IF \E k \in 1..Len(LowerCase) : LowerCase[k] = s[i]
        THEN UpperCase[CHOOSE k \in 1..Len(LowerCase) : LowerCase[k] = s[i]]
        ELSE s[i]]

\* usize::to_string
RECURSIVE to_string(_)
to_string(n) ==
    IF n < 10
    THEN <<Digits[n + 1]>>
    ELSE to_string(n \div 10) \o <<Digits[(n % 10) + 1]>>

\* [&str]::join
RECURSIVE join(_, _)
join(exprs, sep) ==
    IF Len(exprs) = 0
    THEN <<>>
    ELSE IF Len(exprs) = 1
    THEN exprs[1]
    ELSE exprs[1] \o sep \o join(Tail(exprs), sep)

\* prepare_where_clause: the filter text and its parameters for a FilterArg.
\* (The durations of the model are far below usize::MAX, where saturating_add
\* would cut.)
prepare_where_clause(arg) ==
    LET by_name == IF arg.name.some
                   THEN [exprs |-> <<LIT_clause.name_GLOB>>,
                         params |-> <<to_ascii_uppercase(arg.name.v) \o <<"*">> >>]
                   ELSE [exprs |-> <<>>, params |-> <<>>]
        by_tag == IF arg.tag.some
                  THEN [exprs |-> Append(by_name.exprs, LIT_clause.tag_eq),
                        params |-> Append(by_name.params,
                                          to_ascii_uppercase(arg.tag.v))]
                  ELSE by_name
        min == IF arg.duration.some /\ arg.duration.v >= arg.duration_range
               THEN arg.duration.v - arg.duration_range
               ELSE 0
        max == IF arg.duration.some
               THEN arg.duration.v + arg.duration_range
               ELSE 0
        all == IF arg.duration.some
               THEN [exprs |-> Append(by_tag.exprs, LIT_clause.duration_BETWEEN),
                     params |-> by_tag.params \o <<to_string(min), to_string(max)>>]
               ELSE by_tag
        clause == IF Len(all.exprs) = 0
                  THEN LIT_clause.ORDER_BY_name
                  ELSE LIT_clause.WHERE \o join(all.exprs, LIT_clause.AND)
                           \o LIT_clause.then_ORDER_BY_name
    IN  [clause |-> clause, params |-> all.params]

\* do_list, lines 469-473: the parameters are bound as texts.
where_params(params) == [i \in 1..Len(params) |-> Text(params[i])]

\* prepare_database, line 180: create_indexes(&c).unwrap() after a create_table
\* that returned t.
then_create_indexes(t, x) ==
    [ok |-> x.ok, err |-> x.err, db |-> x.db, sent |-> t.sent \o x.sent]

\* prepare_database, line 179: create_table(&c).unwrap(); a failure is a panic,
\* which leaves the store with what the statements before it did.
unwrap_create_table(gen_index, t) ==
    IF ~t.ok THEN t ELSE then_create_indexes(t, create_indexes(gen_index, t.db))

\* prepare_database, lines 177-182
prepare_database(gen_table, gen_index, store) ==
    unwrap_create_table(gen_index, create_table(gen_table, store))

----------------------------------------------------------------------------
(* Run time: a program built from one record type calls the generated      *)
(* operations on a store, one call at a time.  The record types, the       *)
(* record values and the filters are drawn from bounded sets.              *)

\* The most rows a table is filled with.
MaxRows == 3

\* The most columns of a table that an earlier version of the record type left
\* in the store.
MaxLegacy == 2

\* The record types of the programs: VideoEntry; one of three indexed fields,
\* the first also the primary key; one whose primary key is its last field, a
\* number; one of one field, without a primary key.
RuntimeStructs ==
    {VideoEntry,
     ItemStruct(
         <<Attribute(LIT_table_name, TOKENS.t)>>,
         <<Field(ID.name, LIT_String,
                 <<Attribute(LIT_primary, <<>>), Attribute(LIT_index, <<>>)>>),
           Field(ID.n, TOKENS.u32, <<Attribute(LIT_index, <<>>)>>),
           Field(ID.tag, LIT_String, <<Attribute(LIT_index, <<>>)>>)>>),
     ItemStruct(
         <<Attribute(TOKENS.allow, TOKENS.dead_code),
           Attribute(LIT_table_name, TOKENS.t)>>,
         <<Field(ID.tag, LIT_String, <<Attribute(LIT_index, <<>>)>>),
           Field(ID.n, TOKENS.u32, <<Attribute(LIT_primary, <<>>)>>)>>),
     ItemStruct(<<Attribute(LIT_table_name, TOKENS.t)>>,
                <<Field(ID.tag, LIT_String, <<>>)>>)}

\* The record types whose select runs against the table of the program's record
\* type.
SelectTypes(struct) ==
    IF struct = VideoEntry THEN {VideoEntry, BriefVideoEntry} ELSE {struct}

\* The names of the records: B, A, AB.
Names == << <<"B">>, <<"A">>, <<"A","B">> >>

\* The tags of the records: ACTION, DRAMA.
Tags == {<<"A","C","T","I","O","N">>, <<"D","R","A","M","A">>}

\* The value of a field in the record with the k-th name and the given tag:
\* every field of a record holds a value of its own.
ValueOf(field, k, tag) ==
    IF field.ident = ID.name THEN Text(Names[k])
    ELSE IF field.ident = ID.tag THEN Text(tag)
    ELSE IF field.ident = ID.file_name THEN Text(Names[k] \o <<".","m","p","4">>)
    ELSE IF field.ident = ID.video_codec THEN Text(<<"h","2","6","4">>)
    ELSE IF field.ident = ID.audio_codec THEN Text(<<"a","a","c">>)
    ELSE IF field.ident = ID.duration THEN Integer(<<20, 5, 9>>[k])
    ELSE IF field.ident = ID.n THEN Integer(k)
    ELSE Integer(100 * Len(field.ident) + k)

Record(struct, k, tag) ==
    [f \in {struct.fields[i].ident : i \in 1..Len(struct.fields)} |->
        ValueOf(CHOOSE x \in Range(struct.fields) : x.ident = f, k, tag)]

Records(struct) == {Record(struct, k, tag) : k \in 1..Len(Names), tag \in Tags}

\* The filters of the list command (--name a, --tag action, --duration 7),
\* and the empty filter text.
FilterArgs ==
    [name : {None, Some(<<"a">>)},
     tag : {None, Some(<<"a","c","t","i","o","n">>)},
     duration : {None, Some(7)}, duration_range : {5}]

Filters ==
    {[clause |-> <<>>, params |-> <<>>]}
        \cup {prepare_where_clause(arg) : arg \in FilterArgs}

\* The store an earlier version of the record type, with only its first n
\* fields, has set up.
Legacy(struct, n) ==
    create_table(derive_create_table(
                     ItemStruct(struct.attrs, SubSeq(struct.fields, 1, n))),
                 EmptyDb).db

InitialStores(struct) ==
    {EmptyDb}
        \cup {Legacy(struct, n) :
                n \in {m \in 1..MaxLegacy : m < Len(struct.fields)}}

Init ==
    /\ input \in RuntimeStructs
    /\ generated = [CreateTable |-> derive_create_table(input),
                    CreateIndex |-> derive_create_index(input),
                    Select |-> derive_select(input),
                    Insert |-> derive_insert(input)]
    /\ db \in InitialStores(input)
    /\ initial = db
    /\ last = NoCall
    /\ fs = NoFiles

\* A call that changes the store returns.
Returns(op, arg, r) ==
    /\ db' = r.db
    /\ last' = [op |-> op, arg |-> arg, pre |-> db, ok |-> r.ok, err |-> r.err,
                sent |-> r.sent]
    /\ UNCHANGED <<input, generated, initial, fs>>

CreateTable ==
    /\ last = NoCall
    /\ Returns("create_table", <<>>, create_table(generated["CreateTable"], db))

CreateIndexes ==
    /\ last = NoCall
    /\ Returns("create_indexes", <<>>, create_indexes(generated["CreateIndex"], db))

PrepareDatabase ==
    /\ last = NoCall
    /\ Returns("prepare_database", <<>>,
               prepare_database(generated["CreateTable"], generated["CreateIndex"],
                                db))

Insert ==
    /\ last = NoCall
    /\ \A t \in db.tables : Len(t.rows) < MaxRows
    /\ \E self \in Records(input) :
           Returns("insert", self, insert(generated["Insert"], self, db))

\* A query returns.
Answers(struct, filter, r) ==
    /\ last' = [op |-> "select", arg |-> filter, struct |-> struct, pre |-> db,
                ok |-> r.ok, err |-> r.err, result |-> r.result, sent |-> r.sent]
    /\ UNCHANGED <<input, generated, db, initial, fs>>

Select ==
    /\ last = NoCall
    /\ \E struct \in SelectTypes(input), filter \in Filters :
           Answers(struct, filter,
                   select(derive_select(struct), struct, db, filter.clause,
                          where_params(filter.params)))

\* The caller takes up the result.
Return ==
    /\ last # NoCall
    /\ last' = NoCall
    /\ UNCHANGED <<input, generated, db, initial, fs>>

Next ==
    \/ CreateTable
    \/ CreateIndexes
    \/ PrepareDatabase
    \/ Insert
    \/ Select
    \/ Return

Spec == Init /\ [][Next]_vars

----------------------------------------------------------------------------
(* The commands add and check of src/main.rs: the program keeps the files  *)
(* of pending/ and files/ and the rows of the table video in step.  A      *)
(* command runs to its end before the next one starts; between commands    *)
(* the user puts entries into the two directories and takes them away.     *)
(* What a command does is threaded through a record st of the store, the   *)
(* working directory and the lines the command has written.                *)

\* The most entries pending/ and files/ hold together.
MaxEntries == 2

\* The most calls that fail in one loop of a command.
MaxFaults == 1

\* ffmpeg::ffi::AV_TIME_BASE
AV_TIME_BASE == 1000000

\* The statements main.rs writes itself (lines 332, 590, 624).
LIT_video ==
    [SELECT_1 |-> <<"S","E","L","E","C","T"," ","1"," ","F","R","O","M"," ",
        "v","i","d","e","o"," ","W","H","E","R","E"," ","n","a","m","e","=",
        "?">>,
     SELECT_file_name |-> <<"S","E","L","E","C","T"," ","f","i","l","e","_",
        "n","a","m","e"," ","F","R","O","M"," ","v","i","d","e","o">>,
     DELETE |-> <<"D","E","L","E","T","E"," ","F","R","O","M"," ","v","i","d",
        "e","o"," ","W","H","E","R","E"," ","f","i","l","e","_","n","a","m",
        "e","=","?">>]

\* A stream of a media file as ffmpeg reports it.
Stream(medium, codec, decodes, bit_rate, rate, width, height) ==
    [medium |-> medium, codec |-> codec, decodes |-> decodes,
     bit_rate |-> bit_rate, rate |-> rate, width |-> width, height |-> height]

\* What ffmpeg::format::input finds in a file.
Media(opens, duration, streams) ==
    [opens |-> opens, duration |-> duration, streams |-> streams]

\* What std::fs::metadata and ffmpeg tell about a directory entry.
Entry(kind, len, media) == [kind |-> kind, len |-> len, media |-> media]

Movie(duration) ==
    Media(TRUE, duration,
          <<Stream("video", <<"h","2","6","4">>, TRUE, 2000000, <<30, 1>>,
                   640, 480),
            Stream("audio", <<"a","a","c">>, TRUE, 128000, <<0, 1>>, 0, 0)>>)

\* The entries the user has: two movies whose names differ only in case, a
\* dash and what follows the first dot, a movie without a dot in its name, a
\* directory, a file that is no media file, and a media file without
\* duration.
FILE ==
    [a_b_m_k |-> <<"a","-","b",".","m",".","k">>,
     AB_m |-> <<"A","B",".","m">>,
     b |-> <<"b">>,
     c_d |-> <<"c",".","d">>,
     e_t |-> <<"e",".","t">>,
     z_v |-> <<"z",".","v">>]

FileNames == {FILE[k] : k \in DOMAIN FILE}

EntryOfName(file_name) ==
    IF file_name = FILE.a_b_m_k THEN Entry("file", 11, Movie(7500000))
    ELSE IF file_name = FILE.AB_m
    THEN Entry("file", 12,
               Media(TRUE, 3000000,
                     <<Stream("audio", <<"a","a","c">>, TRUE, 128000, <<0, 1>>,
                              0, 0),
                       Stream("video", <<"v","p","9">>, FALSE, 0, <<25, 1>>,
                              0, 0),
                       Stream("video", <<"h","2","6","4">>, TRUE, 2000000,
                              <<30, 1>>, 640, 480)>>))
    ELSE IF file_name = FILE.b THEN Entry("file", 13, Movie(1000000))
    ELSE IF file_name = FILE.c_d THEN Entry("dir", 0, Media(FALSE, 0, <<>>))
    ELSE IF file_name = FILE.e_t THEN Entry("file", 14, Media(FALSE, 0, <<>>))
    ELSE Entry("file", 15, Media(TRUE, 0, <<>>))

\* The directory with an entry put under a name, in place of the entry of that
\* name if there is one.
With(dir, file_name, entry) ==
    [n \in DOMAIN dir \cup {file_name} |->
        IF n = file_name THEN entry ELSE dir[n]]

Without(dir, file_name) == [n \in DOMAIN dir \ {file_name} |-> dir[n]]

\* std::fs::rename(format!("{dir}/{file_name}"), format!("files/{file_name}"))
rename(files, dir, file_name) ==
    [files EXCEPT ![dir] = Without(@, file_name),
                  !["files"] = With(@, file_name, files[dir][file_name])]

\* println!, eprintln!: the command writes a line about an entry.
Line(st, file_name, msg) ==
    [st EXCEPT !.log = Append(@, [file_name |-> file_name, msg |-> msg])]

\* The orders in which a set is iterated (read_dir, HashSet::difference).
Orders(S) == {o \in [1..Cardinality(S) -> S] : Range(o) = S}

\* std::fs::read_dir: the entries of a directory in some order, or an error.
read_dir(dir) ==
    {[ok |-> TRUE, entries |-> o] : o \in Orders(DOMAIN dir)}
        \cup {[ok |-> FALSE, entries |-> <<>>]}

\* What can go wrong with one entry outside the program: nothing, or the call
\* named fails with an error of the file system or of SQLite.
Faults == {"none", "metadata", "query", "insert", "rename"}

\* What goes wrong with each of n entries: one of the kinds or nothing, with at
\* most MaxFaults failures.
FaultsOf(n, kinds) ==
    {f \in [1..n -> kinds \cup {"none"}] :
        Cardinality({i \in 1..n : f[i] # "none"}) <= MaxFaults}

\* do_add_file, lines 324-329: the base name before the first '.', without
\* dashes, in upper case.
base_name(file_name) ==
    IF Find(file_name, <<".">>, 1) = 0
    THEN file_name
    ELSE SubSeq(file_name, 1, Find(file_name, <<".">>, 1) - 1)

entry_name(file_name) ==
    to_ascii_uppercase(SelectSeq(base_name(file_name), LAMBDA c : c # "-"))

\* do_add_file, lines 366-409: the first video stream and the first audio
\* stream fill the fields of the entry; a stream whose decoder cannot be read
\* leaves its codec name only.
RECURSIVE read_streams(_, _, _, _, _)
read_streams(entry, streams, k, video_stream_read, audio_stream_read) ==
    IF k > Len(streams)
    THEN entry
    ELSE IF streams[k].medium = "video"
    THEN IF video_stream_read
         THEN read_streams(entry, streams, k + 1, TRUE, audio_stream_read)
         ELSE IF ~streams[k].decodes
         THEN read_streams([entry EXCEPT
                               ![ID.video_codec] = Text(streams[k].codec)],
                           streams, k + 1, TRUE, audio_stream_read)
         ELSE read_streams(
                  [entry EXCEPT
                      ![ID.video_codec] = Text(streams[k].codec),
                      ![ID.video_bit_rate] = Integer(streams[k].bit_rate \div 1000),
                      ![ID.video_frame_rate] =
                          Integer(streams[k].rate[1] \div streams[k].rate[2]),
                      ![ID.video_width] = Integer(streams[k].width),
                      ![ID.video_height] = Integer(streams[k].height)],
                  streams, k + 1, TRUE, audio_stream_read)
    ELSE IF streams[k].medium = "audio"
    THEN IF audio_stream_read
         THEN read_streams(entry, streams, k + 1, video_stream_read, TRUE)
         ELSE IF ~streams[k].decodes
         THEN read_streams([entry EXCEPT
                               ![ID.audio_codec] = Text(streams[k].codec)],
                           streams, k + 1, video_stream_read, TRUE)
         ELSE read_streams(
                  [entry EXCEPT
                      ![ID.audio_codec] = Text(streams[k].codec),
                      ![ID.audio_bit_rate] = Integer(streams[k].bit_rate \div 1000)],
                  streams, k + 1, video_stream_read, TRUE)
    ELSE read_streams(entry, streams, k + 1, video_stream_read,
                      audio_stream_read)

\* do_add_file, lines 435-442: an entry added from another directory than
\* files/ is moved to files/.
move_file(st, dir, file_name, fault) ==
    IF dir = "files"
    THEN st
    ELSE IF fault = "rename"
    THEN Line(st, file_name, "failed to move file")
    ELSE [st EXCEPT !.fs = rename(@, dir, file_name)]

\* A do_add_file that moves the entry whatever the insert returned (C13 tells
\* it from do_add_file).
after_insert_moves_anyway(st, dir, file_name, r, fault) ==
    IF ~r.ok
    THEN move_file(Line(st, file_name, "failed to insert entry"), dir,
                   file_name, fault)
    ELSE move_file([st EXCEPT !.db = r.db], dir, file_name, fault)

\* do_add_file, lines 427-433: the insert has returned r.
after_insert(st, dir, file_name, r, fault) ==
    IF ~r.ok
    THEN Line(st, file_name, "failed to insert entry")
    ELSE move_file([st EXCEPT !.db = r.db], dir, file_name, fault)

\* do_add_file, lines 417-427
insert_entry(st, dir, file_name, entry, fault) ==
    after_insert(Line(st, file_name, "add file"), dir, file_name,
                 IF fault = "insert"
                 THEN Failed(st.db, "disk I/O error")
                 ELSE insert(derive_insert(VideoEntry), entry, st.db),
                 fault)

\* do_add_file, lines 358-415
read_media(st, dir, file_name, entry, media, fault) ==
    IF ~media.opens
    THEN Line(st, file_name, "failed to read media")
    ELSE IF media.duration <= 0
    THEN Line(st, file_name, "duration is not a positive number")
    ELSE insert_entry(st, dir, file_name,
                      read_streams(
                          [entry EXCEPT ![ID.duration] =
                              Integer(media.duration \div AV_TIME_BASE)],
                          media.streams, 1, FALSE, FALSE),
                      fault)

\* do_add_file, lines 337-357: the query for an entry of the name has returned
\* result.
after_query(st, dir, file_name, result, fault) ==
    IF ~result.ok
    THEN Line(st, file_name, "failed to query database")
    ELSE IF Len(result.rows) > 0
    THEN Line(st, file_name, "already existed in database")
    ELSE read_media(st, dir, file_name,
                    [default(VideoEntry) EXCEPT
                        ![ID.name] = Text(entry_name(file_name)),
                        ![ID.file_name] = Text(file_name),
                        ![ID.file_size] = Integer(st.fs[dir][file_name].len)],
                    st.fs[dir][file_name].media, fault)

\* do_add_file, lines 311-443
do_add_file(st, dir, file_name, fault) ==
    IF fault = "metadata" \/ file_name \notin DOMAIN st.fs[dir]
    THEN Line(st, file_name, "failed to read file")
    ELSE IF st.fs[dir][file_name].kind # "file"
    THEN Line(st, file_name, "skip non-file")
    ELSE after_query(st, dir, file_name,
                     IF fault = "query"
                     THEN NoRows("disk I/O error")
                     ELSE Query(st.db, LIT_video.SELECT_1,
                                <<Text(entry_name(file_name))>>),
                     fault)

\* do_add_file for the entries of a directory in the order given, from the
\* k-th on.
RECURSIVE add_files(_, _, _, _, _)
add_files(st, dir, order, faults, k) ==
    IF k > Len(order)
    THEN st
    ELSE add_files(do_add_file(st, dir, order[k], faults[k]), dir, order,
                   faults, k + 1)

\* prepare_directory, lines 161-175
prepare_directory(files, dir_name) ==
    [files EXCEPT !.dirs = @ \cup {dir_name}]

\* prepare_environments, line 157: prepare_database has returned r; its unwrap
\* panics on an error.
database_prepared(st, r) == [st EXCEPT !.db = r.db, !.panicked = ~r.ok]

\* prepare_environments, lines 149-159
prepare_environments(st) ==
    database_prepared(
        [st EXCEPT !.fs = prepare_directory(
                              prepare_directory(
                                  prepare_directory(@, "files"), "links"),
                              "pending")],
        prepare_database(derive_create_table(VideoEntry),
                         derive_create_index(VideoEntry), st.db))

\* do_add, lines 298-308, after prepare_environments
read_pending(st, listing, faults) ==
    IF st.panicked
    THEN st
    ELSE IF ~listing.ok
    THEN Line(st, <<>>, "failed to read directory")
    ELSE add_files(st, "pending", listing.entries, faults, 1)

\* The state a command starts in.
Start(store, files) ==
    [db |-> store, fs |-> files, log |-> <<>>, panicked |-> FALSE]

\* do_add, lines 296-309
do_add(store, files, listing, faults) ==
    read_pending(prepare_environments(Start(store, files)), listing, faults)

\* A do_check that reports a row as removed and keeps it (C14 tells it from
\* do_check).
after_delete_keeps_row(st, name, r) ==
    Line(st, name, "invalid entry removed")

\* do_check, lines 623-633: the DELETE has returned r.
after_delete(st, name, r) ==
    IF r.ok
    THEN Line([st EXCEPT !.db = r.db], name, "invalid entry removed")
    ELSE Line(st, name, "failed to remove invalid entry")

\* do_check, lines 620-635: the file names of the store that files/ does not
\* hold, in the order given, from the k-th on.
RECURSIVE check_rows(_, _, _, _, _)
check_rows(st, fix, order, faults, k) ==
    IF k > Len(order)
    THEN st
    ELSE IF ~fix
    THEN check_rows(Line(st, order[k], "not in file system"), fix, order,
                    faults, k + 1)
    ELSE check_rows(
             after_delete(Line(st, order[k], "not in file system"), order[k],
                          IF faults[k] = "delete"
                          THEN Failed(st.db, "disk I/O error")
                          ELSE Execute(st.db, LIT_video.DELETE,
                                       <<Text(order[k])>>)),
             fix, order, faults, k + 1)

\* do_check, lines 637-642: the entries of files/ that the store does not
\* name, in the order given, from the k-th on.
RECURSIVE check_files(_, _, _, _, _)
check_files(st, fix, order, faults, k) ==
    IF k > Len(order)
    THEN st
    ELSE IF ~fix
    THEN check_files(Line(st, order[k], "not in database"), fix, order,
                     faults, k + 1)
    ELSE check_files(do_add_file(Line(st, order[k], "not in database"),
                                 "files", order[k], faults[k]),
                     fix, order, faults, k + 1)

\* do_check, lines 588-612: the file names the rows of the store hold.
db_file_names(store) ==
    {r[1].v : r \in Range(Query(store, LIT_video.SELECT_file_name,
                                <<>>).rows)}

\* do_check, lines 614-618
fs_file_names(files) == DOMAIN files["files"]

\* do_check, lines 588-642, after prepare_environments: q is what the query
\* for the file names returns; io names the call that fails, if any.
compare(st, fix, io, q, yield, faults) ==
    IF st.panicked
    THEN st
    ELSE IF io = "query" \/ ~q.ok
            \/ \E i \in 1..Len(q.rows) : q.rows[i][1].t # "text"
    THEN Line(st, <<>>, "failed to query database")
    ELSE IF io = "read_dir"
    THEN [st EXCEPT !.panicked = TRUE]
    ELSE check_files(check_rows(st, fix, yield.missing, faults.missing, 1),
                     fix, yield.extra, faults.extra, 1)

\* do_check, lines 588-595: the query for the file names of the store.
query_file_names(st, fix, io, yield, faults) ==
    compare(st, fix, io, Query(st.db, LIT_video.SELECT_file_name, <<>>),
            yield, faults)

\* do_check, lines 585-643
do_check(store, files, fix, io, yield, faults) ==
    query_file_names(prepare_environments(Start(store, files)), fix, io, yield,
                     faults)

\* The orders in which the two differences of do_check are iterated.
Yields(store, files) ==
    [missing : Orders(db_file_names(store) \ fs_file_names(files)),
     extra : Orders(fs_file_names(files) \ db_file_names(store))]

\* A command has run to its end.
Ran(op, arg, st) ==
    /\ db' = st.db
    /\ fs' = st.fs
    /\ last' = [op |-> op, arg |-> arg, pre |-> db, was |-> fs,
                log |-> st.log, panicked |-> st.panicked]
    /\ UNCHANGED <<input, generated, initial>>

InitFiles ==
    /\ input = VideoEntry
    /\ generated = [CreateTable |-> derive_create_table(input),
                    CreateIndex |-> derive_create_index(input),
                    Select |-> derive_select(input),
                    Insert |-> derive_insert(input)]
    /\ db = EmptyDb
    /\ initial = db
    /\ last = NoCall
    /\ fs = NoFiles

\* Command::Add
DoAdd ==
    /\ last = NoCall
    /\ \E listing \in read_dir(fs.pending) :
           \E faults \in FaultsOf(Len(listing.entries), Faults) :
               Ran("add", <<>>, do_add(db, fs, listing, faults))

\* Command::Check { fix }; a call of the loops can fail only where the loops
\* make calls: with fix, after the query and read_dir have succeeded.
DoCheck ==
    /\ last = NoCall
    /\ \E fix \in BOOLEAN, io \in {"none", "query", "read_dir"},
          yield \in Yields(db, fs) :
           \E faults \in [missing : FaultsOf(Len(yield.missing),
                                             IF fix /\ io = "none"
                                             THEN {"delete"}
                                             ELSE {}),
                          extra : FaultsOf(Len(yield.extra),
                                           IF fix /\ io = "none"
                                           THEN Faults \ {"rename"}
                                           ELSE {})] :
               Ran("check", [fix |-> fix],
                   do_check(db, fs, fix, io, yield, faults))

\* The user puts an entry into pending/ or files/.
Place ==
    /\ last = NoCall
    /\ Cardinality(DOMAIN fs.pending) + Cardinality(DOMAIN fs.files) < MaxEntries
    /\ \E dir \in {"pending", "files"} \cap fs.dirs :
           \E file_name \in FileNames \ DOMAIN fs[dir] :
               fs' = [fs EXCEPT ![dir] = With(@, file_name,
                                              EntryOfName(file_name))]
    /\ UNCHANGED <<input, generated, db, initial, last>>

\* The user takes an entry out of pending/ or files/.
Remove ==
    /\ last = NoCall
    /\ \E dir \in {"pending", "files"} :
           \E file_name \in DOMAIN fs[dir] :
               fs' = [fs EXCEPT ![dir] = Without(@, file_name)]
    /\ UNCHANGED <<input, generated, db, initial, last>>

NextFiles ==
    \/ DoAdd
    \/ DoCheck
    \/ Place
    \/ Remove
    \/ Return

SpecFiles == InitFiles /\ [][NextFiles]_vars

----------------------------------------------------------------------------
(* What the claims say about the operations at run time, stated from the   *)
(* struct declaration, the store before the call and the store after it.   *)

SQL_WHERE_tag_ORDER_BY_name ==
    <<"W","H","E","R","E"," ","t","a","g","=","?"," ","O","R","D","E","R"," ",
      "B","Y"," ","n","a","m","e">>
W_idx == <<"i","d","x","_">>
W_ACTION == <<"A","C","T","I","O","N">>
W_DRAMA == <<"D","R","A","M","A">>

TableName == TableNameValue(input)

\* The rows of the program's table.
RowsOf(store) ==
    IF HasTable(store, TableName) THEN TableOf(store, TableName).rows ELSE <<>>

\* The store holds the table create_table creates: one column per field of the
\* record type, in declaration order.
HasSchema(store) ==
    /\ HasTable(store, TableName)
    /\ [i \in 1..Len(TableOf(store, TableName).cols) |->
           TableOf(store, TableName).cols[i].name] = Idents(input)

IndexedFields == {f \in Range(input.fields) : HasAttr(f, LIT_index)}

PrimaryFields == {f \in Range(input.fields) : HasAttr(f, LIT_primary)}

\* The index create_indexes creates for a field.
IndexOf(f) ==
    [name |-> W_idx \o TableName \o <<"_">> \o f.ident, table |-> TableName,
     column |-> f.ident]

\* The store holds what create_table and create_indexes set up.
IsSetUp(store) ==
    /\ HasSchema(store)
    /\ \A f \in IndexedFields : IndexOf(f) \in store.indexes

\* The tables with their columns, and the indexes.
Schema(store) ==
    [tables |-> {[name |-> t.name, cols |-> t.cols] : t \in store.tables},
     indexes |-> store.indexes]

\* A row of the table holds the primary-key value of the record.
HoldsKey(store, self) ==
    \E k \in 1..Len(RowsOf(store)), f \in PrimaryFields :
        RowsOf(store)[k][f.ident] = self[f.ident]

\* The entry a row of the table becomes in a select of the record type.
EntryOf(struct, row) == [f \in Range(Idents(struct)) |-> row[f]]

\* C3: round trip: on a store where create_table has created the table and no
\* row holds the primary key of the record r, r.insert(db) succeeds and
\* select(db, "", no params) after it returns a sequence that contains a record
\* whose every field equals the same-named field of r.
C3_InsertSelectRoundTrip ==
    (/\ last.op = "insert"
     /\ HasSchema(last.pre)
     /\ ~HoldsKey(last.pre, last.arg)) =>
        /\ last.ok
        /\ LET s == select(generated["Select"], input, db, <<>>, <<>>)
           IN  /\ s.ok
               /\ \E i \in 1..Len(s.result) :
                      \A f \in DOMAIN last.arg : s.result[i][f] = last.arg[f]

\* An insert of a twelve-field record into a table that holds other rows has
\* returned.
C3_Witness ==
    /\ last.op = "insert"
    /\ input = VideoEntry
    /\ HasSchema(last.pre)
    /\ Len(RowsOf(last.pre)) = 2
    /\ ~HoldsKey(last.pre, last.arg)
    /\ last.ok
    /\ Len(RowsOf(db)) = 3

\* C4: schema setup is idempotent: from an empty store, create_table succeeds,
\* create_indexes after it succeeds, and running them again (one by one or as
\* prepare_database does) on the store they have set up succeeds and leaves
\* the same tables, columns and indexes.
C4_SetupIdempotent ==
    (initial = EmptyDb /\ last.op \in {"create_table", "create_indexes",
                                       "prepare_database"}) =>
        /\ (last.op = "create_indexes" => HasTable(last.pre, TableName)) =>
               /\ last.ok
               /\ last.op # "create_table" => IsSetUp(db)
        /\ IsSetUp(last.pre) => last.ok /\ Schema(db) = Schema(last.pre)

\* prepare_database has run a second time, on a store that is set up and holds
\* rows.
C4_Witness ==
    /\ last.op = "prepare_database"
    /\ initial = EmptyDb
    /\ input = VideoEntry
    /\ IsSetUp(last.pre)
    /\ Len(RowsOf(last.pre)) > 0
    /\ Len(last.sent) = 3
    /\ last.ok
    /\ Cardinality(db.tables) = 1
    /\ Cardinality(db.indexes) = 2

\* C5: insert of a record whose primary-key value a row of the table holds
\* returns an error and leaves the store as it was: the same rows with the same
\* values; the insert sends the one INSERT statement and nothing else.
C5_DuplicateKeyRejected ==
    (last.op = "insert" /\ HoldsKey(last.pre, last.arg)) =>
        /\ ~last.ok
        /\ db = last.pre
        /\ Len(last.sent) = 1
        /\ StartsWith(last.sent[1].sql, LIT_INSERT_INTO)

\* An insert of a record that differs from the stored row of its key has been
\* refused by the store.
C5_Witness ==
    /\ last.op = "insert"
    /\ HoldsKey(last.pre, last.arg)
    /\ \A k \in 1..Len(RowsOf(last.pre)) : RowsOf(last.pre)[k] # last.arg
    /\ ~last.ok
    /\ last.err = "UNIQUE constraint failed"

\* The store after the first i statements of a list have been executed on it.
RECURSIVE After(_, _, _)
After(store, sqls, i) ==
    IF i = 0
    THEN store
    ELSE Execute(After(store, sqls, i - 1), sqls[i], <<>>).db

\* Whether the store accepts statement i after the statements before it.
Accepts(store, sqls, i) == Execute(After(store, sqls, i - 1), sqls[i], <<>>).ok

\* C8: create_indexes executes its statements one at a time in declaration
\* order and is fail-fast: if statement k fails, the store's error is returned,
\* the statements after k are not executed, and what statements 1..k-1 created
\* stays; it returns success only when every statement has succeeded.
C8_CreateIndexesFailFast ==
    last.op = "create_indexes" =>
        LET sqls == generated["CreateIndex"].sqls
            k == Len(last.sent)
        IN  /\ k <= Len(sqls)
            /\ \A i \in 1..k : last.sent[i] = Sent(sqls[i], <<>>)
            /\ \A i \in 1..(k - 1) : Accepts(last.pre, sqls, i)
            /\ IF last.ok
               THEN /\ k = Len(sqls)
                    /\ k > 0 => Accepts(last.pre, sqls, k)
                    /\ db = After(last.pre, sqls, k)
               ELSE /\ k > 0
                    /\ ~Accepts(last.pre, sqls, k)
                    /\ last.err = Execute(After(last.pre, sqls, k - 1), sqls[k],
                                          <<>>).err
                    /\ db = After(last.pre, sqls, k - 1)
                    /\ \A f \in IndexedFields :
                           IndexOf(f) \in db.indexes =>
                               \/ IndexOf(f) \in last.pre.indexes
                               \/ \E i \in 1..(k - 1) :
                                      EndsWith(sqls[i],
                                               <<"(">> \o f.ident \o <<")">>)

\* Statement 2 of 3 has failed: the first index is in the store, the third
\* statement was not sent.
C8_Witness ==
    /\ last.op = "create_indexes"
    /\ Len(generated["CreateIndex"].sqls) = 3
    /\ ~last.ok
    /\ last.err = "no such column"
    /\ Len(last.sent) = 2
    /\ Cardinality(last.pre.indexes) = 0
    /\ Cardinality(db.indexes) = 1

\* C10: select with the filter text WHERE tag=? ORDER BY name and the
\* parameter ACTION returns exactly the rows tagged ACTION, every one of them
\* and no other, in ascending order of name.
C10_SelectByTag ==
    (/\ last.op = "select"
     /\ last.arg = [clause |-> SQL_WHERE_tag_ORDER_BY_name,
                    params |-> <<W_ACTION>>]
     /\ HasSchema(last.pre)
     /\ {ID.name, ID.tag} \subseteq Range(Idents(last.struct))) =>
        LET rows == RowsOf(last.pre)
            action == {k \in 1..Len(rows) : rows[k][ID.tag] = Text(W_ACTION)}
        IN  /\ last.ok
            /\ Len(last.result) = Cardinality(action)
            /\ \A k \in action :
                   \E i \in 1..Len(last.result) :
                       last.result[i] = EntryOf(last.struct, rows[k])
            /\ \A i \in 1..Len(last.result) :
                   last.result[i][ID.tag] = Text(W_ACTION)
            /\ \A i \in 1..(Len(last.result) - 1) :
                   LessText(last.result[i][ID.name].v,
                            last.result[i + 1][ID.name].v)

\* The filter the list command builds for the tag "action" has selected two
\* rows, stored out of name order with a DRAMA row between them.
C10_Witness ==
    /\ last.op = "select"
    /\ last.arg = [clause |-> SQL_WHERE_tag_ORDER_BY_name, params |-> <<W_ACTION>>]
    /\ last.struct = BriefVideoEntry
    /\ Len(RowsOf(last.pre)) = 3
    /\ RowsOf(last.pre)[1][ID.name] = Text(<<"B">>)
    /\ RowsOf(last.pre)[1][ID.tag] = Text(W_ACTION)
    /\ RowsOf(last.pre)[2][ID.tag] = Text(W_DRAMA)
    /\ RowsOf(last.pre)[3][ID.name] = Text(<<"A">>)
    /\ RowsOf(last.pre)[3][ID.tag] = Text(W_ACTION)
    /\ last.ok
    /\ Len(last.result) = 2
    /\ last.result[1][ID.name] = Text(<<"A">>)
    /\ last.result[2][ID.name] = Text(<<"B">>)

W_SELECT == <<"S","E","L","E","C","T"," ">>
W_FROM == <<" ","F","R","O","M"," ">>

\* The base statement of a record type: SELECT <col1>, <col2>, ... FROM
\* <table_name>, the columns in declaration order.
BaseStatement(struct) ==
    W_SELECT \o join(Idents(struct), <<",", " ">>) \o W_FROM
        \o TableNameValue(struct)

\* C11: the statement text select executes is the base statement, followed if
\* and only if the filter text is not empty by one space and the filter text
\* verbatim; with an empty filter text it is the base statement and all rows
\* are returned; the filter parameters are bound and appear nowhere in the
\* text.
C11_SelectStatementText ==
    /\ generated["Select"].tag = "ok" =>
           /\ select_sql(generated["Select"], <<>>) = BaseStatement(input)
           /\ select_sql(generated["Select"], SQL_WHERE_tag_ORDER_BY_name)
                  = BaseStatement(input) \o <<" ">> \o SQL_WHERE_tag_ORDER_BY_name
    /\ last.op = "select" =>
           /\ Len(last.sent) = 1
           /\ last.sent[1].sql =
                  IF Len(last.arg.clause) = 0
                  THEN BaseStatement(last.struct)
                  ELSE BaseStatement(last.struct) \o <<" ">> \o last.arg.clause
           /\ last.sent[1].params =
                  [i \in 1..Len(last.arg.params) |-> Text(last.arg.params[i])]
           /\ \A i \in 1..Len(last.arg.params) :
                  Find(last.sent[1].sql, last.arg.params[i], 1) = 0
           /\ (Len(last.arg.clause) = 0 /\ HasSchema(last.pre)) =>
                  /\ last.ok
                  /\ last.result =
                         [i \in 1..Len(RowsOf(last.pre)) |->
                             EntryOf(last.struct, RowsOf(last.pre)[i])]

\* The statement of C11 for the structs with at least one field.
SelectStatementTextOfNonEmpty ==
    Len(input.fields) > 0 => C11_SelectStatementText

----------------------------------------------------------------------------
(* What the claims say about the commands add and check, stated from the   *)
(* store and the directories before the command, after it, and the lines   *)
(* it wrote.                                                               *)

\* The lines a command wrote about an entry.
LinesAbout(file_name) ==
    {last.log[i].msg : i \in {k \in 1..Len(last.log) :
                                 last.log[k].file_name = file_name}}

\* The lines of do_add_file that tell of a failed metadata call, existence
\* query, media probe or insert, or of an entry of the same name.
SkipLines ==
    {"failed to read file", "failed to query database",
     "already existed in database", "failed to read media",
     "duration is not a positive number", "failed to insert entry"}

\* The rows the command added.
NewRows == {r \in Range(RowsOf(db)) : r \notin Range(RowsOf(last.pre))}

\* The entries the command took out of pending/.
Moved == DOMAIN last.was.pending \ DOMAIN fs.pending

\* Whether a store holds a row of the normalized name of an entry.
HoldsName(store, file_name) ==
    \E r \in Range(RowsOf(store)) : r[ID.name] = Text(entry_name(file_name))

StoreErrorLines ==
    {"failed to query database", "failed to remove invalid entry",
     "failed to insert entry"}

\* A check with fix has run to its end without an error of the store.
Fixed ==
    /\ last.op = "check"
    /\ last.arg.fix
    /\ ~last.panicked
    /\ \A i \in 1..Len(last.log) : last.log[i].msg \notin StoreErrorLines

\* Whether files/ held an entry of the file name of a row before the command.
HadFile(row) == row[ID.file_name].v \in DOMAIN last.was.files

====
